---- MODULE Spec2Model ----
(***************************************************************************)
(* A model of the js-analysis rewrite driver (lib/rewriteCode.js) and of   *)
(* the pattern engine it drives (lib/patterns.js, known from its tests     *)
(* and from the specification).                                            *)
(*                                                                         *)
(* A syntax-tree node is a record                                          *)
(*   [type, name, kids, loc, parsed]                                       *)
(* type   the ESTree node type                                             *)
(* name   the node's scalar field (an identifier's name, an operator, a    *)
(*        literal's text), "" when the kind has none                       *)
(* kids   the child nodes in estraverse's VisitorKeys order; an absent     *)
(*        optional child (the alternate of an if without else) is left out *)
(* parsed TRUE for the very object the parser produced, the one the scope  *)
(*        analysis has seen; FALSE for every object made later (a template *)
(*        node, a copy, a container made by the driver)                    *)
(* loc    history field: the path of the parsed node this object is, or    *)
(*        was copied from; NoLoc for a node that stems from a template     *)
(* A pattern node may also be a placeholder, with the extra field mod      *)
(* (expectMultiLine or allowDeclarations).                                 *)
(***************************************************************************)
EXTENDS Integers, Sequences, FiniteSets, TLC

VARIABLES
  pc,            \* position in rewriteCode / in the pattern test driver
  orig,          \* the tree as parsed, before rewriteCode touched it
  ast,           \* the tree being rewritten in place
  scopeManager,  \* result of escope.analyze(ast)
  worklist,      \* estraverse: elements still to visit (paths, or Sentinel)
  leavelist,     \* estraverse: elements entered and not yet left
  cur,           \* path of the node whose enter hook is running the rename
  result,        \* the filled replacement held by the enter hook
  scope,         \* enter hook: scopeManager.acquire(node).upper
  variable,      \* enter hook: scope.set.get(node.id.name)
  newName,       \* enter hook: the candidate name
  i,             \* enter hook: the suffix counter
  spins,         \* history: parity of the number of runs of the while body
  renames,       \* history: the renames done so far
  err,           \* "" or the kind of exception that ended rewriteCode
  pattern,       \* pattern engine call: the pattern or template
  subject,       \* pattern engine call: the node (matches) or "" (fill)
  environment,   \* pattern engine call: the environment given to fill
  outcome        \* pattern engine call: what the call returned

vars == <<pc, orig, ast, scopeManager, worklist, leavelist, cur, result, scope,
          variable, newName, i, spins, renames, err, pattern, subject,
          environment, outcome>>

rewriteVars == <<orig, ast, scopeManager, worklist, leavelist, cur, result,
                 scope, variable, newName, i, spins, renames, err>>

patternVars == <<pattern, subject, environment, outcome>>

-----------------------------------------------------------------------------
(* Bounds of the model *)

\* the longest statement list of an input program
MaxStmts == 2

-----------------------------------------------------------------------------
(* Nodes *)

NoLoc == <<0>>

\* a node object made after parsing
N(type, name, kids) ==
  [type |-> type, name |-> name, kids |-> kids, loc |-> NoLoc, parsed |-> FALSE]

Id(name) == N("Identifier", name, <<>>)
Lit(text) == N("Literal", text, <<>>)
ExprStmt(e) == N("ExpressionStatement", "", <<e>>)
Sequence(es) == N("SequenceExpression", "", es)
Block(body) == N("BlockStatement", "", body)
Program(body) == N("Program", "", body)
If(test, consequent) == N("IfStatement", "", <<test, consequent>>)
IfElse(test, consequent, alternate) ==
  N("IfStatement", "", <<test, consequent, alternate>>)
While(test, body) == N("WhileStatement", "", <<test, body>>)
DoWhile(body, test) == N("DoWhileStatement", "", <<body, test>>)
For(init, test, update, body) == N("ForStatement", "", <<init, test, update, body>>)
ForIn(left, right, body) == N("ForInStatement", "", <<left, right, body>>)
ForOf(left, right, body) == N("ForOfStatement", "", <<left, right, body>>)
Unary(op, e) == N("UnaryExpression", op, <<e>>)
Logical(op, l, r) == N("LogicalExpression", op, <<l, r>>)
Conditional(t, c, a) == N("ConditionalExpression", "", <<t, c, a>>)
Member(object, property) == N("MemberExpression", "", <<object, property>>)
Object(properties) == N("ObjectExpression", "", properties)
Property(key, value) == N("Property", "init", <<key, value>>)
Return(e) == N("ReturnStatement", "", <<e>>)
Binary(op, l, r) == N("BinaryExpression", op, <<l, r>>)
Assign(l, r) == N("AssignmentExpression", "=", <<l, r>>)
Call(callee, arguments) == N("CallExpression", "", <<callee>> \o arguments)
Index(object, property) == N("MemberExpression", "computed", <<object, property>>)
\* var name = init;
Var(name, init) ==
  N("VariableDeclaration", "var", <<N("VariableDeclarator", "", <<name, init>>)>>)
\* function id(params) { body }: kids are id, then the params, then the body
Function(id, params, body) ==
  N("FunctionDeclaration", "", <<id>> \o params \o <<Block(body)>>)

GenericPlaceholder(key) ==
  [type |-> "GenericPlaceholder", name |-> key, kids |-> <<>>,
   loc |-> NoLoc, parsed |-> FALSE, mod |-> FALSE]
StatementPlaceholder(key, expectMultiLine) ==
  [type |-> "StatementPlaceholder", name |-> key, kids |-> <<>>,
   loc |-> NoLoc, parsed |-> FALSE, mod |-> expectMultiLine]
ExpressionPlaceholder(key, allowDeclarations) ==
  [type |-> "ExpressionPlaceholder", name |-> key, kids |-> <<>>,
   loc |-> NoLoc, parsed |-> FALSE, mod |-> allowDeclarations]

PlaceholderTypes ==
  {"GenericPlaceholder", "StatementPlaceholder", "ExpressionPlaceholder"}

StatementTypes ==
  {"BlockStatement", "ExpressionStatement", "IfStatement", "WhileStatement",
   "DoWhileStatement", "ForStatement", "ForInStatement", "ForOfStatement",
   "FunctionDeclaration", "ReturnStatement", "VariableDeclaration",
   "SwitchStatement", "TryStatement", "LabeledStatement", "ThrowStatement",
   "BreakStatement", "ContinueStatement"}

\* the statement kinds that, printed bare, span more than one line
MultiLineTypes ==
  {"IfStatement", "WhileStatement", "DoWhileStatement", "ForStatement",
   "ForInStatement", "ForOfStatement", "BlockStatement", "SwitchStatement",
   "TryStatement", "LabeledStatement", "FunctionDeclaration"}

ExpressionTypes ==
  {"Identifier", "Literal", "UnaryExpression", "LogicalExpression",
   "ConditionalExpression", "SequenceExpression", "MemberExpression",
   "ObjectExpression", "BinaryExpression", "AssignmentExpression",
   "CallExpression"}

DeclarationTypes == {"VariableDeclaration"}

-----------------------------------------------------------------------------
(* Trees *)

RECURSIVE Strip(_)
\* the node without object identity and history: what deep equality compares
Strip(n) ==
  [n EXCEPT !.loc = NoLoc, !.parsed = FALSE,
            !.kids = [k \in DOMAIN n.kids |-> Strip(n.kids[k])]]

RECURSIVE Copy(_)
\* a deep copy: new objects throughout, with the same content
Copy(n) ==
  [n EXCEPT !.parsed = FALSE,
            !.kids = [k \in DOMAIN n.kids |-> Copy(n.kids[k])]]

RECURSIVE Label(_, _)
\* the objects the parser makes for tree n standing at path p
Label(n, p) ==
  [n EXCEPT !.loc = p, !.parsed = TRUE,
            !.kids = [k \in DOMAIN n.kids |-> Label(n.kids[k], Append(p, k))]]

\* esprima.parse(contents)
readScript(contents) == Label(contents, <<>>)

RECURSIVE Get(_, _)
Get(n, p) == IF p = <<>> THEN n ELSE Get(n.kids[Head(p)], Tail(p))

RECURSIVE Set(_, _, _)
Set(n, p, v) ==
  IF p = <<>> THEN v
  ELSE [n EXCEPT !.kids[Head(p)] = Set(n.kids[Head(p)], Tail(p), v)]

RECURSIVE Paths(_)
\* the paths of all nodes of n
Paths(n) ==
  {<<>>} \cup UNION {{<<k>> \o p : p \in Paths(n.kids[k])} : k \in DOMAIN n.kids}

HasPath(n, p) == p \in Paths(n)

Front(s) == SubSeq(s, 1, Len(s) - 1)

IsPrefix(p, q) == Len(p) <= Len(q) /\ SubSeq(q, 1, Len(p)) = p

RECURSIVE Flatten(_)
\* the concatenation of a sequence of sequences
Flatten(ss) == IF ss = <<>> THEN <<>> ELSE Head(ss) \o Flatten(Tail(ss))

-----------------------------------------------------------------------------
(* The pattern engine: patterns.matches and patterns.fill *)

NoMatch == [ok |-> FALSE, env |-> <<>>]

\* bind key to value, the last value winning
BindLast(env, key, value, same) ==
  [ok |-> TRUE, env |-> (key :> value) @@ env]

\* bind key to value, or re-check it against the value bound before
Bind(env, key, value, same) ==
  IF key \in DOMAIN env
  THEN IF same THEN [ok |-> TRUE, env |-> env] ELSE NoMatch
  ELSE [ok |-> TRUE, env |-> env @@ (key :> value)]

RECURSIVE Match(_, _, _)
RECURSIVE MatchKids(_, _, _, _)
\* pattern p against node n, with the bindings collected so far
Match(p, n, env) ==
  CASE p.type = "GenericPlaceholder" ->
         IF n.type = "Identifier"
         THEN Bind(env, p.name, n.name,
                   p.name \in DOMAIN env /\ env[p.name] = n.name)
         ELSE NoMatch
    [] p.type = "StatementPlaceholder" ->
         IF n.type \in StatementTypes /\ (p.mod => n.type \in MultiLineTypes)
         THEN Bind(env, p.name, n,
                   p.name \in DOMAIN env /\ Strip(env[p.name]) = Strip(n))
         ELSE NoMatch
    [] p.type = "ExpressionPlaceholder" ->
         IF n.type \in ExpressionTypes \/ (p.mod /\ n.type \in DeclarationTypes)
         THEN Bind(env, p.name, n,
                   p.name \in DOMAIN env /\ Strip(env[p.name]) = Strip(n))
         ELSE NoMatch
    [] OTHER ->
         IF p.type = n.type /\ p.name = n.name /\ Len(p.kids) = Len(n.kids)
         THEN MatchKids(p.kids, n.kids, 1, env)
         ELSE NoMatch

\* the children from the k-th on, one after the other; the first mismatch
\* ends the match
MatchKids(ps, ns, k, env) ==
  IF k > Len(ps) THEN [ok |-> TRUE, env |-> env]
  ELSE CHOOSE m \in {IF kid.ok THEN MatchKids(ps, ns, k + 1, kid.env) ELSE NoMatch :
                       kid \in {Match(ps[k], ns[k], env)}} : TRUE

\* patterns.matches(pattern, node): [ok |-> TRUE, env |-> the environment] or NoMatch
matches(p, n) == Match(p, n, <<>>)

MissingPlaceholder == [type |-> "Error", name |-> "missing placeholder value"]

RECURSIVE fillShallow(_, _)
\* fill that does not pass a failure below the root on to its caller
fillShallow(t, env) ==
  IF t.type \in PlaceholderTypes
  THEN IF t.name \notin DOMAIN env THEN MissingPlaceholder
       ELSE IF t.type = "GenericPlaceholder"
            THEN Id(env[t.name])
            ELSE Copy(env[t.name])
  ELSE N(t.type, t.name, [k \in DOMAIN t.kids |-> fillShallow(t.kids[k], env)])

RECURSIVE fill(_, _)
\* patterns.fill(template, placeholders): a new tree, or MissingPlaceholder
fill(t, env) ==
  IF t.type \in PlaceholderTypes
  THEN IF t.name \notin DOMAIN env THEN MissingPlaceholder
       ELSE IF t.type = "GenericPlaceholder"
            THEN Id(env[t.name])
            ELSE Copy(env[t.name])
  ELSE CHOOSE tree \in
         {IF \E k \in DOMAIN filled : filled[k].type = "Error"
          THEN MissingPlaceholder
          ELSE N(t.type, t.name, filled) :
            filled \in {[k \in DOMAIN t.kids |-> fill(t.kids[k], env)]}} : TRUE

-----------------------------------------------------------------------------
(* The rule table *)

E1 == ExpressionPlaceholder("expression1", FALSE)
E2 == ExpressionPlaceholder("expression2", FALSE)
E3 == ExpressionPlaceholder("expression3", FALSE)
E1orDeclaration == ExpressionPlaceholder("expression1", TRUE)
S1 == StatementPlaceholder("statement1", FALSE)
S2 == StatementPlaceholder("statement2", FALSE)
S1multiLine == StatementPlaceholder("statement1", TRUE)
P1 == GenericPlaceholder("placeholder1")
P2 == GenericPlaceholder("placeholder2")
P3 == GenericPlaceholder("placeholder3")

canonicalName == "_interopRequireDefault"

\* function name(param) { return param && param.__esModule ? param : {default: param}; }
HelperShape(name, param) ==
  Function(name, <<param>>,
    <<Return(Conditional(Logical("&&", param, Member(param, Id("__esModule"))),
                         param,
                         Object(<<Property(Id("default"), param)>>)))>>)

\* !1, !0, void 0, and the three expression statements that become conditionals
expressionRules ==
  << <<Unary("!", Lit("1")), Lit("false")>>,
     <<Unary("!", Lit("0")), Lit("true")>>,
     <<Unary("void", Lit("0")), Id("undefined")>>,
     <<ExprStmt(Logical("&&", E1, E2)), If(E1, ExprStmt(E2))>>,
     <<ExprStmt(Logical("||", E1, E2)), If(Unary("!", E1), ExprStmt(E2))>>,
     <<ExprStmt(Conditional(E1, E2, E3)), IfElse(E1, ExprStmt(E2), ExprStmt(E3))>> >>

\* the if rule without the multiLine modifier on its body
ifRuleAnyBody == <<If(E1, S1), If(E1, Block(<<S1>>))>>

\* if (expression1) statement1.multiLine;  =>  if (expression1) { statement1; }
ifRule == <<If(E1, S1multiLine), If(E1, Block(<<S1>>))>>

loopRules ==
  << <<While(E1, S1multiLine), While(E1, Block(<<S1>>))>>,
     <<DoWhile(S1multiLine, E1), DoWhile(Block(<<S1>>), E1)>>,
     <<For(E1orDeclaration, E2, E3, S1multiLine), For(E1, E2, E3, Block(<<S1>>))>>,
     <<ForIn(E1orDeclaration, E2, S1multiLine), ForIn(E1, E2, Block(<<S1>>))>>,
     <<ForOf(E1orDeclaration, E2, S1multiLine), ForOf(E1, E2, Block(<<S1>>))>> >>

helperRule == <<HelperShape(P1, P2), HelperShape(Id(canonicalName), Id("obj"))>>

rewritePatterns == expressionRules \o <<ifRule>> \o loopRules \o <<helperRule>>

\* the index of the first rule whose pattern matches node, 0 when none does
FirstRule(node) ==
  LET hits == {r \in DOMAIN rewritePatterns : matches(rewritePatterns[r][1], node).ok}
  IN  IF hits = {} THEN 0 ELSE CHOOSE r \in hits : \A q \in hits : r <= q

-----------------------------------------------------------------------------
(* Scope analysis: escope.analyze, and renameVariable *)

GlobalScope == <<>>
Null == <<-1>>
Undefined == [scope |-> Null, name |-> ""]

FunctionPaths(t) == {p \in Paths(t) : Get(t, p).type = "FunctionDeclaration"}

\* the scope whose code the node at path p is part of: the innermost function
\* that properly contains it, or the global scope
ScopeAt(t, p) ==
  LET around == {q \in FunctionPaths(t) : q # p /\ IsPrefix(q, p)}
  IN  IF around = {} THEN GlobalScope
      ELSE CHOOSE q \in around : \A r \in around : Len(r) <= Len(q)

\* the paths of the parameter identifiers of the function at path f
ParamPaths(t, f) == {Append(f, k) : k \in 2 .. (Len(Get(t, f).kids) - 1)}

\* the names a scope declares: the keys of scope.set
DeclaredNames(t, s) ==
  {Get(t, Append(f, 1)).name : f \in {g \in FunctionPaths(t) : ScopeAt(t, g) = s}}
  \cup (IF s = GlobalScope THEN {}
        ELSE {"arguments"} \cup {Get(t, q).name : q \in ParamPaths(t, s)})

\* the identifiers that declare a name rather than use it, and the ones that
\* are property names
IsDeclaringId(t, p) ==
  /\ p # <<>>
  /\ Get(t, Front(p)).type = "FunctionDeclaration"
  /\ p[Len(p)] < Len(Get(t, Front(p)).kids)

IsPropertyName(t, p) ==
  /\ p # <<>>
  /\ \/ Get(t, Front(p)).type = "MemberExpression" /\ p[Len(p)] = 2
     \/ Get(t, Front(p)).type = "Property" /\ p[Len(p)] = 1

RECURSIVE Resolve(_, _, _)
\* the scope that declares name, looked up from scope s outwards, or Null
Resolve(t, s, name) ==
  IF name \in DeclaredNames(t, s) THEN s
  ELSE IF s = GlobalScope THEN Null
  ELSE Resolve(t, ScopeAt(t, s), name)

\* the scope in which the identifier at path p is looked up or declared
IdScope(t, p) ==
  IF IsDeclaringId(t, p) /\ p[Len(p)] = 1 THEN ScopeAt(t, Front(p))
  ELSE IF IsDeclaringId(t, p) THEN Front(p)
  ELSE ScopeAt(t, p)

\* a variable is the pair [scope, name] of its declaring scope and its name as
\* analysed; its identifiers and
\* references are the parsed Identifier objects, named by their paths
OccurrencesOf(t, v) ==
  {p \in Paths(t) :
     /\ Get(t, p).type = "Identifier"
     /\ ~IsPropertyName(t, p)
     /\ Get(t, p).name = v.name
     /\ IF IsDeclaringId(t, p) THEN IdScope(t, p) = v.scope
        ELSE Resolve(t, IdScope(t, p), v.name) = v.scope}

analyze(t) ==
  LET scopes == {GlobalScope} \cup FunctionPaths(t)
      variables == UNION {{[scope |-> s, name |-> n] : n \in DeclaredNames(t, s)} : s \in scopes}
  IN  [scopes |-> scopes,
       upper  |-> [s \in scopes |-> IF s = GlobalScope THEN Null ELSE ScopeAt(t, s)],
       set    |-> [s \in scopes |-> DeclaredNames(t, s)],
       occurrences |-> [v \in variables |-> OccurrencesOf(t, v)]]

\* scopeManager.acquire(node): the scope of a node object the analysis has
\* seen, null for any other object
acquire(sm, node) ==
  IF node.parsed /\ node.loc \in sm.scopes THEN node.loc ELSE Null

RECURSIVE renameVariable(_, _, _)
\* every identifier object of the variable (its declarations and its
\* references, the parsed objects at paths locs) gets the new name
renameVariable(n, locs, name) ==
  [n EXCEPT !.name = IF n.parsed /\ n.type = "Identifier" /\ n.loc \in locs
                     THEN name ELSE @,
            !.kids = [k \in DOMAIN n.kids |-> renameVariable(n.kids[k], locs, name)]]

-----------------------------------------------------------------------------
(* rewriteCode: the hooks *)

Sentinel == <<-1>>

Top(stack) == stack[Len(stack)]
Pop(stack) == SubSeq(stack, 1, Len(stack) - 1)

\* what estraverse pushes after entering the node at path p: the sentinel,
\* then the children, last child first
PushChildren(stack, p, node) ==
  stack \o <<Sentinel>>
        \o [k \in 1 .. Len(node.kids) |-> Append(p, Len(node.kids) + 1 - k)]

IsSequenceStatement(node) ==
  node.type = "ExpressionStatement" /\ node.kids[1].type = "SequenceExpression"

\* the split with the statements in the reverse order
SplitSequenceReversed(node) ==
  Program([k \in DOMAIN node.kids[1].kids |->
             ExprStmt(node.kids[1].kids[Len(node.kids[1].kids) + 1 - k])])

\* a, b, c => a; b; c;  the container's statements are new objects around the
\* sequence's own expression objects
SplitSequence(node) ==
  Program([k \in DOMAIN node.kids[1].kids |-> ExprStmt(node.kids[1].kids[k])])

FunctionName(node) == node.kids[1].name

SetFunctionName(node, name) == [node EXCEPT !.kids[1].name = name]

RECURSIVE Splice(_, _)
\* the loop over node.body: a container at index k is replaced by its own
\* statements and index k is looked at again
Splice(body, k) ==
  IF k > Len(body) THEN body
  ELSE IF body[k].type = "Program"
       THEN Splice(SubSeq(body, 1, k - 1) \o body[k].kids
                     \o SubSeq(body, k + 1, Len(body)), k)
       ELSE Splice(body, k + 1)

\* leave without the coercion of a container into a block
LeaveHookNoCoercion(node, parent) ==
  IF node.type = "BlockStatement" \/ node.type = "Program"
  THEN [node EXCEPT !.kids = Splice(node.kids, 1)]
  ELSE node

\* leave(node, parent), as the node it leaves behind
LeaveHook(node, parent) ==
  LET coerced == IF /\ node.type = "Program"
                    /\ parent.type # "BlockStatement"
                    /\ parent.type # "Program"
                 THEN [node EXCEPT !.type = "BlockStatement"]
                 ELSE node
  IN  IF coerced.type = "BlockStatement" \/ coerced.type = "Program"
      THEN [coerced EXCEPT !.kids = Splice(coerced.kids, 1)]
      ELSE coerced

-----------------------------------------------------------------------------
(* rewriteCode: the steps *)

\* let scopeManager = escope.analyze(ast); estraverse.replace starts at the root
Analyze ==
  /\ pc = "start"
  /\ scopeManager' = analyze(ast)
  /\ worklist' = << <<>> >>
  /\ leavelist' = << <<>> >>
  /\ pc' = "walk"
  /\ UNCHANGED <<orig, ast, cur, result, scope, variable, newName, i, spins, renames, err>>
  /\ UNCHANGED patternVars

\* the node at path p is replaced by target and the traversal goes on into
\* target's children
Descend(tree, p, target) ==
  /\ ast' = Set(tree, p, target)
  /\ worklist' = PushChildren(Pop(worklist), p, target)
  /\ leavelist' = Append(leavelist, p)

Throw(kind) ==
  /\ pc' = "threw"
  /\ err' = kind
  /\ UNCHANGED <<orig, ast, scopeManager, worklist, leavelist, cur, result,
                 scope, variable, newName, i, spins, renames>>

\* history: a replacement is recorded as standing where the replaced node stood
Replacing(node, replacement) == [replacement EXCEPT !.loc = node.loc]

\* enter(node) on a comma-sequence statement
EnterSequence ==
  /\ pc = "walk" /\ worklist # <<>> /\ Top(worklist) # Sentinel
  /\ \E node \in {Get(ast, Top(worklist))} :
       /\ IsSequenceStatement(node)
       /\ Descend(ast, Top(worklist), SplitSequence(node))
  /\ UNCHANGED <<pc, orig, scopeManager, cur, result, scope, variable, newName,
                 i, spins, renames, err>>
  /\ UNCHANGED patternVars

\* enter(node) on a node no rule matches
EnterNoMatch ==
  /\ pc = "walk" /\ worklist # <<>> /\ Top(worklist) # Sentinel
  /\ \E node \in {Get(ast, Top(worklist))} :
       /\ ~IsSequenceStatement(node)
       /\ FirstRule(node) = 0
       /\ Descend(ast, Top(worklist), node)
  /\ UNCHANGED <<pc, orig, scopeManager, cur, result, scope, variable, newName,
                 i, spins, renames, err>>
  /\ UNCHANGED patternVars

\* what the rule table makes of node: the filled replacement of the first
\* matching rule
Rewritten(node) ==
  fill(rewritePatterns[FirstRule(node)][2],
       matches(rewritePatterns[FirstRule(node)][1], node).env)

\* enter(node) on a node a rule matches, other than a function declaration
\* rewritten to a function declaration
EnterRule ==
  /\ pc = "walk" /\ worklist # <<>> /\ Top(worklist) # Sentinel
  /\ \E node \in {Get(ast, Top(worklist))} :
       /\ ~IsSequenceStatement(node)
       /\ FirstRule(node) # 0
       /\ \E filled \in {Rewritten(node)} :
            /\ ~(node.type = "FunctionDeclaration" /\ filled.type = "FunctionDeclaration")
            /\ IF filled.type = "Error"
               THEN Throw("fill")
               ELSE /\ Descend(ast, Top(worklist), Replacing(node, filled))
                    /\ UNCHANGED <<pc, orig, scopeManager, cur, result, scope,
                                   variable, newName, i, spins, renames, err>>
  /\ UNCHANGED patternVars

\* enter(node) on a function declaration rewritten to a function declaration:
\* the scope lookup and the start of the name search
EnterFunction ==
  /\ pc = "walk" /\ worklist # <<>> /\ Top(worklist) # Sentinel
  /\ \E node \in {Get(ast, Top(worklist))} :
       /\ ~IsSequenceStatement(node)
       /\ FirstRule(node) # 0
       /\ \E filled \in {Rewritten(node)} :
            /\ node.type = "FunctionDeclaration" /\ filled.type = "FunctionDeclaration"
            /\ IF acquire(scopeManager, node) = Null
               THEN Throw("scope")
               ELSE /\ scope' = scopeManager.upper[acquire(scopeManager, node)]
                    /\ variable' =
                         IF FunctionName(node) \in scopeManager.set[scope']
                         THEN [scope |-> scope', name |-> FunctionName(node)]
                         ELSE Undefined
                    /\ newName' = FunctionName(filled)
                    /\ i' = 1
                    /\ spins' = 0
                    /\ result' = Replacing(node, filled)
                    /\ cur' = Top(worklist)
                    /\ pc' = "rename"
                    /\ UNCHANGED <<orig, ast, scopeManager, worklist, leavelist,
                                   renames, err>>
  /\ UNCHANGED patternVars

\* while (scope.set.has(newName)) newName = result.id.name + i;
NameTaken ==
  /\ pc = "rename"
  /\ newName \in scopeManager.set[scope]
  /\ newName' = FunctionName(result) \o ToString(i)
  /\ spins' = 1 - spins
  /\ UNCHANGED <<pc, orig, ast, scopeManager, worklist, leavelist, cur, result,
                 scope, variable, i, renames, err>>
  /\ UNCHANGED patternVars

\* result.id.name = newName; renameVariable(variable, newName); return result;
NameFree ==
  /\ pc = "rename"
  /\ newName \notin scopeManager.set[scope]
  /\ IF variable = Undefined
     THEN Throw("variable")
     ELSE /\ Descend(renameVariable(ast, scopeManager.occurrences[variable], newName),
                     cur, SetFunctionName(result, newName))
          /\ result' = SetFunctionName(result, newName)
          /\ renames' = renames \cup
               {[scope |-> scope, old |-> variable.name, new |-> newName, at |-> cur]}
          /\ pc' = "walk"
          /\ UNCHANGED <<orig, scopeManager, cur, scope, variable, newName, i,
                         spins, err>>
  /\ UNCHANGED patternVars

\* leave(node, parent)
Leave ==
  /\ pc = "walk" /\ worklist # <<>> /\ Top(worklist) = Sentinel
  /\ LET p == Top(leavelist)
         parent == Get(ast, Top(Pop(leavelist)))
     IN  ast' = Set(ast, p, LeaveHook(Get(ast, p), parent))
  /\ worklist' = Pop(worklist)
  /\ leavelist' = Pop(leavelist)
  /\ UNCHANGED <<pc, orig, scopeManager, cur, result, scope, variable, newName,
                 i, spins, renames, err>>
  /\ UNCHANGED patternVars

\* estraverse.replace returns, and rewriteCode with it
Finish ==
  /\ pc = "walk" /\ worklist = <<>>
  /\ pc' = "done"
  /\ UNCHANGED <<orig, ast, scopeManager, worklist, leavelist, cur, result,
                 scope, variable, newName, i, spins, renames, err>>
  /\ UNCHANGED patternVars

-----------------------------------------------------------------------------
(* The input programs *)

a == Id("a")
b == Id("b")
c == Id("c")
x == Id("x")
y == Id("y")
foo == Id("foo")

\* function name(e) { return e && e.__esModule ? e : {default: e}; }
Helper(name) == HelperShape(Id(name), Id("e"))

\* function name() {}
Plain(name) == Function(Id(name), <<>>, <<>>)

Statements ==
  { ExprStmt(Sequence(<<a, b>>)),                          \* a, b;
    ExprStmt(Sequence(<<Sequence(<<a, b>>), c>>)),         \* (a, b), c;
    ExprStmt(Sequence(<<Logical("&&", a, b), c>>)),        \* a && b, c;
    ExprStmt(Sequence(<<a, foo>>)),                        \* a, foo;
    ExprStmt(Logical("&&", a, foo)),                       \* a && foo;
    ExprStmt(foo),                                         \* foo;
    ExprStmt(Unary("!", Lit("1"))),                        \* !1;
    If(c, If(x, ExprStmt(y))),                             \* if (c) if (x) y;
    If(c, ExprStmt(Sequence(<<Sequence(<<a, b>>), c>>))),  \* if (c) (a, b), c;
    If(c, Block(<<Helper("foo")>>)),                       \* if (c) { function foo(e) {..} }
    Helper("foo"),
    Helper("bar"),
    Helper(canonicalName),
    Plain(canonicalName \o "1"),
    \* function wrap(_interopRequireDefault) { function foo(e) {..} foo; }
    Function(Id("wrap"), <<Id(canonicalName)>>, <<Helper("foo"), ExprStmt(foo)>>) }

RECURSIVE Lists(_, _)
\* the sequences of at most n elements of S
Lists(S, n) ==
  IF n = 0 THEN {<<>>}
  ELSE {<<>>} \cup {<<e>> \o l : e \in S, l \in Lists(S, n - 1)}

Inputs == {Program(body) : body \in Lists(Statements, MaxStmts) \ {<<>>}}

-----------------------------------------------------------------------------
(* The specification of rewriteCode *)

IdlePattern ==
  /\ pattern = Id("")
  /\ subject = Id("")
  /\ environment = <<>>
  /\ outcome = Id("")

Init ==
  /\ pc = "start"
  /\ \E contents \in Inputs : ast = readScript(contents)
  /\ orig = ast
  /\ scopeManager = analyze(Program(<<>>))
  /\ worklist = <<>>
  /\ leavelist = <<>>
  /\ cur = <<>>
  /\ result = Id("")
  /\ scope = Null
  /\ variable = Undefined
  /\ newName = ""
  /\ i = 0
  /\ spins = 0
  /\ renames = {}
  /\ err = ""
  /\ IdlePattern

Next ==
  \/ Analyze
  \/ EnterSequence
  \/ EnterNoMatch
  \/ EnterRule
  \/ EnterFunction
  \/ NameTaken
  \/ NameFree
  \/ Leave
  \/ Finish

Spec == Init /\ [][Next]_vars

\* rewriteCode is one synchronous call: it runs on as long as it can
FairSpec == Spec /\ WF_vars(Next)

-----------------------------------------------------------------------------
(* Reading the outcome of a rewrite *)

\* the parsed nodes that the objects of n are, were copied from or stand for
Locs(n) == {Get(n, p).loc : p \in Paths(n)} \ {NoLoc}

\* the statements of the rewritten program that stem from the k-th statement
\* of the input program
Out(k) == SelectSeq(ast.kids, LAMBDA s : \E l \in Locs(s) : IsPrefix(<<k>>, l))

\* every object of s stems from the parsed subtree at path q
From(s, q) == Locs(s) # {} /\ \A l \in Locs(s) : IsPrefix(q, l)

\* the statements of the rewritten program stand in the order of the input
\* statements they stem from
InInputOrder ==
  /\ \A m \in DOMAIN ast.kids : \E k \in DOMAIN orig.kids : From(ast.kids[m], <<k>>)
  /\ \A m, n \in DOMAIN ast.kids : \A k, l \in DOMAIN orig.kids :
       (m < n /\ From(ast.kids[m], <<k>>) /\ From(ast.kids[n], <<l>>)) => k <= l

\* nothing is left to do on statement s for the sequence split or a rule
Settled(s) == ~IsSequenceStatement(s) /\ FirstRule(s) = 0

RECURSIVE Elements(_, _)
\* the paths of the expressions a comma-sequence at path q comes down to, a
\* nested comma-sequence counting for its own elements
Elements(t, q) ==
  IF Get(t, q).type = "SequenceExpression"
  THEN Flatten([k \in DOMAIN Get(t, q).kids |-> Elements(t, Append(q, k))])
  ELSE <<q>>

Nodes(t) == {Get(t, p) : p \in Paths(t)}

\* the smallest k >= 1 with base + k not in S
RECURSIVE FirstFreeSuffix(_, _, _)
FirstFreeSuffix(base, S, k) ==
  IF (base \o ToString(k)) \notin S THEN k ELSE FirstFreeSuffix(base, S, k + 1)

ExpectedName(S) ==
  IF canonicalName \notin S THEN canonicalName
  ELSE canonicalName \o ToString(FirstFreeSuffix(canonicalName, S, 1))

-----------------------------------------------------------------------------
(* The claims about rewriteCode *)

\* C1: once the helper rule has matched a declaration whose enclosing scope
\* holds the names S, the declaration is given the canonical name if that is
\* not in S, and otherwise the canonical name followed by the smallest k >= 1
\* that makes a name not in S.
C1_NameIsFirstFree ==
  (pc = "rename") ~>
    (/\ pc # "rename"
     /\ scope \in scopeManager.scopes
     /\ newName = ExpectedName(scopeManager.set[scope]))

\* C2: rewriteCode terminates on every input tree.
C2_Terminates == <>(pc \in {"done", "threw"})

\* C3 as claimed: `if (c) if (x) y;` is rewritten to `if (c) { if (x) { y; } }`.
C3_BothBraced ==
  pc = "done" =>
    \A k \in DOMAIN orig.kids :
      Strip(orig.kids[k]) = If(c, If(x, ExprStmt(y))) =>
        /\ Len(Out(k)) = 1
        /\ Strip(Out(k)[1]) = If(c, Block(<<If(x, Block(<<ExprStmt(y)>>))>>))

\* C3 as amended: `if (c) if (x) y;` is rewritten to `if (c) { if (x) y; }`:
\* the outer conditional, whose body is a conditional, gets a block body, and
\* the inner one, whose body is an expression statement, keeps its bare body.
C3_OuterBraced ==
  pc = "done" =>
    \A k \in DOMAIN orig.kids :
      Strip(orig.kids[k]) = If(c, If(x, ExprStmt(y))) =>
        /\ Len(Out(k)) = 1
        /\ Strip(Out(k)[1]) = If(c, Block(<<If(x, ExprStmt(y))>>))

C3_Witness ==
  /\ pc = "done"
  /\ Strip(orig) = Program(<<If(c, If(x, ExprStmt(y)))>>)
  /\ Strip(ast) = Program(<<If(c, Block(<<If(x, ExprStmt(y))>>))>>)

C5_ReferencesRenamed ==
  pc = "done" =>
    \A r \in renames : \A n \in Nodes(ast) :
      (/\ n.type = "Identifier"
       /\ n.loc \in scopeManager.occurrences[[scope |-> r.scope, name |-> r.old]])
      => n.name = r.new

\* C8: when rewriteCode has returned, no container (a node of type Program)
\* is left below the root.
C8_NoContainerLeft ==
  pc = "done" => \A p \in Paths(ast) : p # <<>> => Get(ast, p).type # "Program"

\* `(a, b), c; if (c) (a, b), c;` has become `a; b; c; if (c) { a; b; c; }`
C8_Witness ==
  /\ pc = "done"
  /\ Strip(orig) = Program(<<ExprStmt(Sequence(<<Sequence(<<a, b>>), c>>)),
                             If(c, ExprStmt(Sequence(<<Sequence(<<a, b>>), c>>)))>>)
  /\ Strip(ast) = Program(<<ExprStmt(a), ExprStmt(b), ExprStmt(c),
                            If(c, Block(<<ExprStmt(a), ExprStmt(b), ExprStmt(c)>>))>>)

\* C9: two declarations of one scope with different names before the rewrite
\* have different names after it.
C9_DistinctNames ==
  \A r, q \in renames :
    (r.scope = q.scope /\ r.old # q.old) => r.new # q.new

\* C10: the lookup of the scope, and of the variable, of a function
\* declaration the helper rule matches never fails.
C10_ScopeFound == err \notin {"scope", "variable"}

-----------------------------------------------------------------------------
(* The pattern engine on its own: the calls of the test suite, and more *)

\* function placeholder1(placeholder2,placeholder3){return (placeholder2+placeholder3)}
SumPattern == Function(P1, <<P2, P3>>, <<Return(Binary("+", P2, P3))>>)
\* function sum(a, b) { return a + b; }  and  { return b + a; }
SumAB == Function(Id("sum"), <<a, b>>, <<Return(Binary("+", a, b))>>)
SumBA == Function(Id("sum"), <<a, b>>, <<Return(Binary("+", b, a))>>)

\* function sum(a,b){statement1;statement1;}
TwicePattern == Function(Id("sum"), <<a, b>>, <<S1, S1>>)
VarResult == Var(Id("result"), Binary("+", a, b))
\* function sum(a, b) { var result = a + b; var result = a + b; }
SumTwice == Function(Id("sum"), <<a, b>>, <<VarResult, VarResult>>)
\* function sum(a, b) { var result = a + b; if (result) print(result); }
SumPrint ==
  Function(Id("sum"), <<a, b>>,
    <<VarResult, If(Id("result"), ExprStmt(Call(Id("print"), <<Id("result")>>)))>>)

\* for (expression1 in expression2) print(expression1);
ForInPattern == ForIn(E1, E2, ExprStmt(Call(Id("print"), <<E1>>)))
YProp2 == Index(Member(y, Id("prop")), Lit("2"))
\* for (x in y.prop[2]) print(x);  and  print(y.prop[2]);
ForInX == ForIn(x, YProp2, ExprStmt(Call(Id("print"), <<x>>)))
ForInY == ForIn(x, YProp2, ExprStmt(Call(Id("print"), <<YProp2>>)))

\* patterns that use two placeholders side by side, in every combination
PairPatterns ==
  {Block(<<s, t>>) : s, t \in {S1, S2, S1multiLine}}
  \cup {Logical("&&", e, f) : e, f \in {E1, E2, P1, P2}}

PairSubjects ==
  {Block(<<s, t>>) : s, t \in {ExprStmt(a), ExprStmt(b), If(c, ExprStmt(a))}}
  \cup {Logical("&&", e, f) : e, f \in {a, b, Member(a, b)}}

Patterns ==
  {SumPattern, TwicePattern, ForInPattern} \cup PairPatterns
  \cup {rewritePatterns[r][1] : r \in DOMAIN rewritePatterns}

Subjects ==
  {SumAB, SumBA, SumTwice, SumPrint, ForInX, ForInY, Helper("foo")}
  \cup PairSubjects

\* function placeholder1(placeholder2, placeholder3) { return placeholder2 + placeholder3; }
SumTemplate == SumPattern
\* function test() { statement1; statement2; }
TestTemplate == Function(Id("test"), <<>>, <<S1, S2>>)
\* if (expression1) a = 2; else if (expression2) a = 3;
ElseIfTemplate ==
  IfElse(E1, ExprStmt(Assign(a, Lit("2"))), If(E2, ExprStmt(Assign(a, Lit("3")))))

Templates ==
  {SumTemplate, TestTemplate, ElseIfTemplate, SumAB}
  \cup {rewritePatterns[r][2] : r \in DOMAIN rewritePatterns}

\* the values the test suite supplies
FullEnvironment ==
  [placeholder1 |-> "sum", placeholder2 |-> "a", placeholder3 |-> "b",
   expression1 |-> Label(Binary(">", b, Lit("2")), <<1, 1>>),
   expression2 |-> Label(Binary("<", b, Lit("0")), <<2, 1>>),
   expression3 |-> Label(c, <<3, 1>>),
   statement1 |-> Label(ExprStmt(Call(Member(Id("console"), Id("log")), <<Lit("1")>>)), <<4>>),
   statement2 |-> Label(ExprStmt(Assign(b, Lit("12"))), <<5>>)]

Environments ==
  {[k \in keys |-> FullEnvironment[k]] : keys \in SUBSET DOMAIN FullEnvironment}

IdleRewrite ==
  /\ orig = readScript(Program(<<>>))
  /\ ast = orig
  /\ scopeManager = analyze(Program(<<>>))
  /\ worklist = <<>>
  /\ leavelist = <<>>
  /\ cur = <<>>
  /\ result = Id("")
  /\ scope = Null
  /\ variable = Undefined
  /\ newName = ""
  /\ i = 0
  /\ spins = 0
  /\ renames = {}
  /\ err = ""

InitPatterns ==
  /\ IdleRewrite
  /\ outcome = Id("")
  /\ \/ /\ pc = "matches"
        /\ pattern \in Patterns
        /\ \E node \in Subjects : subject = readScript(node)
        /\ environment = <<>>
     \/ /\ pc = "fill"
        /\ pattern \in Templates
        /\ subject = Id("")
        /\ environment \in Environments

\* patterns.matches(pattern, subject)
CallMatches ==
  /\ pc = "matches"
  /\ outcome' = matches(pattern, subject)
  /\ pc' = "matched"
  /\ UNCHANGED <<pattern, subject, environment>>
  /\ UNCHANGED rewriteVars

\* patterns.fill(pattern, environment)
CallFill ==
  /\ pc = "fill"
  /\ outcome' = fill(pattern, environment)
  /\ pc' = "filled"
  /\ UNCHANGED <<pattern, subject, environment>>
  /\ UNCHANGED rewriteVars

NextPatterns == CallMatches \/ CallFill

SpecPatterns == InitPatterns /\ [][NextPatterns]_vars

-----------------------------------------------------------------------------
(* The claims about the pattern engine *)

PlaceholderPaths(t) == {q \in Paths(t) : Get(t, q).type \in PlaceholderTypes}

Keys(t) == {Get(t, q).name : q \in PlaceholderPaths(t)}

\* what the placeholder at path q of the pattern faces in the subject: the
\* name for a generic placeholder, the subtree (up to deep equality) otherwise
Faced(q) ==
  IF Get(pattern, q).type = "GenericPlaceholder"
  THEN Get(subject, q).name
  ELSE Strip(Get(subject, q))

Bound(q) ==
  IF Get(pattern, q).type = "GenericPlaceholder"
  THEN outcome.env[Get(pattern, q).name]
  ELSE Strip(outcome.env[Get(pattern, q).name])

\* C6: matches returns an environment only if all occurrences of one
\* placeholder key face equal values in the node, and the environment then
\* binds exactly the pattern's keys, each to the value it faces.
C6_ConsistentBindings ==
  (pc = "matched" /\ outcome.ok) =>
    /\ \A q \in PlaceholderPaths(pattern) : HasPath(subject, q)
    /\ \A q, r \in PlaceholderPaths(pattern) :
         Get(pattern, q).name = Get(pattern, r).name => Faced(q) = Faced(r)
    /\ DOMAIN outcome.env = Keys(pattern)
    /\ \A q \in PlaceholderPaths(pattern) : Bound(q) = Faced(q)

\* a pattern that uses one key twice has matched
C6_Witness ==
  /\ pc = "matched" /\ outcome.ok
  /\ \E q, r \in PlaceholderPaths(pattern) :
       q # r /\ Get(pattern, q).name = Get(pattern, r).name
  /\ pattern = TwicePattern
  /\ Strip(subject) = SumTwice

\* C7: fill fails exactly when the template holds a placeholder whose key the
\* environment lacks, however many other keys it binds.
C7_FillFailsOnMissingKey ==
  pc = "filled" =>
    (outcome.type = "Error" <=> ~(Keys(pattern) \subseteq DOMAIN environment))

\* two placeholders are supplied and the third is missing: fill has failed
C7_Witness ==
  /\ pc = "filled"
  /\ pattern = SumTemplate
  /\ DOMAIN environment = {"placeholder2", "placeholder3"}
  /\ outcome.type = "Error"

====
